---- MODULE Spec2Model ----
(***************************************************************************)
(* A model of the Vulkan rendering backend of the client:                  *)
(*   renderer/vertex_renderer.rs  (VertexRenderer: load_shader, render,    *)
(*                                  drop order of its fields)              *)
(*   renderer/vulkan/device.rs    (adapter selection, queue families,      *)
(*                                  pipeline registry, frame recording,    *)
(*                                  submission, teardown)                  *)
(*   renderer/vulkan/surface.rs   (frame index, synchronisation objects,   *)
(*                                  framebuffers, flip_buffers, teardown)  *)
(*   renderer/vulkan/pipeline.rs  (shader loading, pipeline teardown)      *)
(*                                                                         *)
(* Spec         the renderer after construction: the CPU thread calling    *)
(*              load_shader / create_framebuffers_for_pipeline / render /  *)
(*              drop, and the GPU completing work asynchronously.          *)
(* SpecAdapter  the reduction over the physical adapters in Device::new.   *)
(* SpecLive     Spec with the CPU thread and the GPU taking their steps.   *)
(* SpecQueues   the reductions over the queue families in                  *)
(*              find_device_queues_indices, the queue-creation requests    *)
(*              of Device::new and create_device_queues.                   *)
(* SpecPresentQueues, SpecFormat, SpecPresentMode, SpecCapabilities,       *)
(* SpecConstruct: the present family over longer family lists, the swap-   *)
(*              chain parameters, and the order of construction.           *)
(***************************************************************************)
EXTENDS Integers, Sequences, FiniteSets, TLC

\* surface.rs: pub const MAX_FRAMES_IN_FLIGHT: usize = 2;
MAX_FRAMES_IN_FLIGHT == 2

\* Bounds of the model.
MaxQueueCount == 2
MaxImages == 2
MaxFrames == 5
MaxFramebufferSets == 2
MaxLoadFrames == 1
MaxAdapters == 3
MaxFamilies == 2
MaxPresentFamilies == 3
MaxFormats == 3
MaxPresentModes == 3
MaxDimension == 2
MaxImageCount == 3

VARIABLES
    \* ---- Device / Surface / VertexRenderer (Spec) ----
    pc,                 \* position of the CPU control thread
    pipelines,          \* Device.pipelines: HashMap<String, Pipeline>
    lastCall,           \* arguments and result of the last create_pipeline call
    framebuffers,       \* Surface.framebuffers: Option<Vec<vk::Framebuffer>>
    liveFramebuffers,   \* framebuffer handles created and not yet destroyed
    fbCreated,          \* number of framebuffer handles created so far
    current_framebuffer_index, \* Surface.current_framebuffer_index
    current_frame_index,       \* render's local copy, passed to the Device calls
    image_index,        \* the swap-chain image acquired by the frame being recorded
    frameLog,           \* the Vulkan calls the current render call has made
    frames,             \* number of render calls started
    flips,              \* number of flip_buffers calls completed
    graphicsQueues,     \* queue_families.graphics.len()
    imageCount,         \* swapchain_images.len()
    fenceSignaled,      \* state of frame_in_flight[i]
    acquirePending,     \* an image acquisition will still signal frame_in_flight[i]
    gpuWork,            \* unfinished submissions that execute command buffer i
    arcCount,           \* strong count of the Arc<RwLock<Device>>
    dropQueue,          \* the drops still to run, in order, once the renderer is dropped
    destroyLog,         \* the objects destroyed so far, in order
    guards,             \* the guards the CPU thread holds on the RwLock<Device>
    \* ---- adapter selection (SpecAdapter) ----
    adapters, accum, position,
    \* ---- queue families (SpecQueues) ----
    families, assignment,
    queue_create_infos, \* the DeviceQueueCreateInfo list given to create_device
    queue_families,     \* Device.queue_families: the queue handles per role
    \* ---- swap-chain parameters (SpecFormat, SpecPresentMode, SpecCapabilities) ----
    swapchain_info,     \* SwapChainInfo: capabilities, formats, present_modes
    window_size,        \* window.inner_size()
    preferred,          \* preferred_surface_format, preferred_present_mode
    swapchain,          \* the parameters the swap chain is created with
    \* ---- construction of the renderer (SpecConstruct) ----
    renderer,           \* which composition root is constructed
    constructing,       \* the objects still to construct, in order
    constructed,        \* the objects constructed so far
    built               \* per constructed object, what existed when its construction began

deviceVars == <<pc, pipelines, lastCall, framebuffers, liveFramebuffers, fbCreated,
                current_framebuffer_index, current_frame_index, image_index,
                frameLog, frames, flips, graphicsQueues, imageCount,
                fenceSignaled, acquirePending, gpuWork, arcCount, dropQueue,
                destroyLog, guards>>
adapterVars == <<adapters, accum, position>>
queueVars == <<families, assignment, queue_create_infos, queue_families>>
swapchainVars == <<swapchain_info, window_size, preferred, swapchain>>
constructVars == <<renderer, constructing, constructed, built>>
setupVars == <<adapterVars, queueVars, swapchainVars, constructVars>>
vars == <<deviceVars, setupVars>>

Frames == 0 .. (MAX_FRAMES_IN_FLIGHT - 1)

(***************************************************************************)
(* The file system seen by create_pipeline and by load_shader.  A relative *)
(* path is resolved by Path::exists against the working directory and by   *)
(* pipeline.rs load_shader against the directory of the executable; the    *)
(* four paths are the four combinations.                                   *)
(***************************************************************************)
Names == {"basic", "other"}
Paths == {"both", "cwd_only", "exe_only", "missing"}

\* std::path::Path::exists on the path as given (device.rs 251, 253)
ExistsInCwd(p) == p \in {"both", "cwd_only"}

\* current_exe().parent().join(path).exists() (pipeline.rs 399-407)
ExistsInExeDir(p) == p \in {"both", "exe_only"}

\* HashMap::new()
EmptyMap == [k \in {} |-> [vertex |-> "", fragment |-> ""]]

NoCall == [op |-> "none", name |-> "", vertex |-> "", fragment |-> "",
           result |-> "", before |-> EmptyMap, guard |-> ""]

(***************************************************************************)
(* The RwLock<Device>.  std::sync::RwLock is not reentrant: read() or      *)
(* write() called by a thread that still holds a guard on the lock blocks  *)
(* (or panics), so such a request ends the run as "blocked".               *)
(***************************************************************************)
NoGuard == <<>>
WouldBlock == guards # NoGuard
Acquire(kind) == IF WouldBlock THEN guards ELSE <<kind>>
Held == IF guards = NoGuard THEN "" ELSE guards[1]

\* pipeline.rs load_shader: Some(module) iff the file exists beside the executable
load_shader(path) == IF ExistsInExeDir(path) THEN "Some" ELSE "None"

\* Pipeline::new: both load_shader results go through expect()
PipelineNewPanics(vertex, fragment) ==
    load_shader(vertex) = "None" \/ load_shader(fragment) = "None"

Pipeline(vertex, fragment) == [vertex |-> vertex, fragment |-> fragment]

\* HashMap::insert: the map afterwards, and the previous value under the key
MapInsert(map, key, value) ==
    [k \in DOMAIN map \cup {key} |-> IF k = key THEN value ELSE map[k]]
MapInsertPrior(map, key) == IF key \in DOMAIN map THEN "Some" ELSE "None"

\* Device::get_pipeline
get_pipeline(map, name) == IF name \in DOMAIN map THEN <<map[name]>> ELSE <<>>

\* create_pipeline looking at the shader paths before the name
create_pipeline_paths_first(map, name, vertex, fragment) ==
    IF ~ExistsInCwd(vertex) \/ ~ExistsInCwd(fragment)
    THEN [result |-> "ErrNotFound", pipelines |-> map]
    ELSE IF name \in DOMAIN map
    THEN [result |-> "ErrDuplicate", pipelines |-> map]
    ELSE [result |-> "ErrInsert",
          pipelines |-> MapInsert(map, name, Pipeline(vertex, fragment))]

(***************************************************************************)
(* Device::create_pipeline (device.rs 242-269).  The result is one of      *)
(*   "Ok", "ErrDuplicate", "ErrNotFound", "ErrInsert", or "Panic" when     *)
(* Pipeline::new unwraps a shader that load_shader did not find.           *)
(***************************************************************************)
create_pipeline(map, name, vertex, fragment) ==
    IF name \in DOMAIN map
    THEN [result |-> "ErrDuplicate", pipelines |-> map]
    ELSE IF ~ExistsInCwd(vertex)
    THEN [result |-> "ErrNotFound", pipelines |-> map]
    ELSE IF ~ExistsInCwd(fragment)
    THEN [result |-> "ErrNotFound", pipelines |-> map]
    ELSE IF PipelineNewPanics(vertex, fragment)
    THEN [result |-> "Panic", pipelines |-> map]
    ELSE [result |-> IF MapInsertPrior(map, name) = "Some" THEN "Ok" ELSE "ErrInsert",
          pipelines |-> MapInsert(map, name, Pipeline(vertex, fragment))]

\* Surface::create_framebuffers_for_pipeline: one new handle per image view
NewFramebuffers == [i \in 1 .. imageCount |-> fbCreated + i]

\* Option<Vec<Framebuffer>>: <<>> is None, <<v>> is Some(v)
None == <<>>
Some(v) == <<v>>

(***************************************************************************)
(* The order of the Vulkan calls of one frame.                             *)
(*   Device::begin_graphics_render_pass  device.rs 281-367                 *)
(*   Device::draw_vertices               device.rs 412-418                 *)
(*   Device::end_graphics_render_pass    device.rs 420-425                 *)
(*   Surface::flip_buffers               surface.rs 213-235                *)
(***************************************************************************)
Call(op, frame) == [op |-> op, frame |-> frame]

Idle == pc = "idle"

\* VertexRenderer::load_shader (vertex_renderer.rs 33-59): the write guard is held
\* for the whole call; framebuffers are created only when create_pipeline is Ok.
\* main.rs 37-45 loads its shader before the event loop renders; calls made after
\* rendering has started are explored up to the MaxLoadFrames-th frame.
LoadShader(name, vertex, fragment) ==
    /\ Idle
    /\ frames <= MaxLoadFrames
    /\ UNCHANGED guards
    /\ IF WouldBlock
       THEN /\ pc' = "blocked"
            /\ UNCHANGED <<pipelines, lastCall, framebuffers, liveFramebuffers, fbCreated>>
       ELSE LET r == create_pipeline(pipelines, name, vertex, fragment) IN
            /\ pipelines' = r.pipelines
            /\ lastCall' = [op |-> "create_pipeline", name |-> name, vertex |-> vertex,
                            fragment |-> fragment, result |-> r.result,
                            before |-> pipelines, guard |-> Acquire("write")[1]]
            /\ pc' = IF r.result = "Panic" THEN "panicked" ELSE "idle"
            /\ IF r.result = "Ok"
               THEN /\ framebuffers' = Some(NewFramebuffers)
                    /\ liveFramebuffers' = liveFramebuffers \cup
                                           {NewFramebuffers[i] : i \in 1 .. imageCount}
                    /\ fbCreated' = fbCreated + imageCount
               ELSE UNCHANGED <<framebuffers, liveFramebuffers, fbCreated>>
    /\ UNCHANGED <<current_framebuffer_index, current_frame_index, image_index,
                   frameLog, frames, flips, graphicsQueues, imageCount,
                   fenceSignaled, acquirePending, gpuWork, arcCount, dropQueue,
                   destroyLog>>
    /\ UNCHANGED <<setupVars>>

\* Surface::create_framebuffers_for_pipeline (surface.rs 174-190), given a pipeline
\* obtained from Device::get_pipeline.  The previous Vec is overwritten.
CreateFramebuffersForPipeline(name) ==
    /\ UNCHANGED guards
    /\ Idle
    /\ get_pipeline(pipelines, name) # <<>>
    /\ fbCreated < MaxFramebufferSets * imageCount
    /\ framebuffers' = Some(NewFramebuffers)
    /\ liveFramebuffers' = liveFramebuffers \cup
                           {NewFramebuffers[i] : i \in 1 .. imageCount}
    /\ fbCreated' = fbCreated + imageCount
    /\ lastCall' = NoCall
    /\ UNCHANGED <<pc, pipelines, current_framebuffer_index, current_frame_index,
                   image_index, frameLog, frames, flips, graphicsQueues, imageCount,
                   fenceSignaled, acquirePending, gpuWork, arcCount, dropQueue,
                   destroyLog>>
    /\ UNCHANGED <<setupVars>>

\* the frame index advancing without the modulus
NextFrameIndexNoWrap(i) == i + 1

\* surface.rs 234: (current_framebuffer_index + 1) % MAX_FRAMES_IN_FLIGHT
NextFrameIndex(i) == (i + 1) % MAX_FRAMES_IN_FLIGHT

renderVars == <<pipelines, framebuffers, liveFramebuffers, fbCreated, graphicsQueues,
                imageCount, arcCount, dropQueue, destroyLog>>

\* One recording call on the frame's graphics command buffer.
Record(from, to, calls) ==
    /\ pc = from
    /\ pc' = to
    /\ frameLog' = frameLog \o calls

\* render with the index of the first frame slot instead of the Surface's
RenderBeginFixedFrame ==
    /\ Idle
    /\ frames < MaxFrames
    /\ pc' = IF WouldBlock THEN "blocked" ELSE "wait_for_fences"
    /\ guards' = Acquire("write")
    /\ current_frame_index' = 0
    /\ frames' = frames + 1
    /\ frameLog' = <<>>
    /\ lastCall' = NoCall
    /\ UNCHANGED <<current_framebuffer_index, image_index, flips, fenceSignaled,
                   acquirePending, gpuWork>>
    /\ UNCHANGED <<renderVars, setupVars>>

\* VertexRenderer::render (vertex_renderer.rs 61-67): take the write guard and read
\* Surface::get_current_frame_index.
RenderBegin ==
    /\ Idle
    /\ frames < MaxFrames
    /\ pc' = IF WouldBlock THEN "blocked" ELSE "wait_for_fences"
    /\ guards' = Acquire("write")
    /\ current_frame_index' = current_framebuffer_index
    /\ frames' = frames + 1
    /\ frameLog' = <<>>
    /\ lastCall' = NoCall
    /\ UNCHANGED <<current_framebuffer_index, image_index, flips, fenceSignaled,
                   acquirePending, gpuWork>>
    /\ UNCHANGED <<renderVars, setupVars>>

\* device.rs 287-294: wait_for_fences(&[frame_in_flight], true, u64::MAX) blocks
WaitForFences ==
    /\ UNCHANGED guards
    /\ fenceSignaled[current_frame_index]
    /\ Record("wait_for_fences", "reset_fences",
              <<Call("wait_for_fences", current_frame_index)>>)
    /\ UNCHANGED <<current_framebuffer_index, current_frame_index, image_index, frames,
                   flips, lastCall, fenceSignaled, acquirePending, gpuWork>>
    /\ UNCHANGED <<renderVars, setupVars>>

\* device.rs 295-296
ResetFences ==
    /\ UNCHANGED guards
    /\ Record("reset_fences", "acquire_next_image",
              <<Call("reset_fences", current_frame_index)>>)
    /\ fenceSignaled' = [fenceSignaled EXCEPT ![current_frame_index] = FALSE]
    /\ UNCHANGED <<current_framebuffer_index, current_frame_index, image_index, frames,
                   flips, lastCall, acquirePending, gpuWork>>
    /\ UNCHANGED <<renderVars, setupVars>>

\* device.rs 298 and Surface::acquire_next_image (surface.rs 201-211): the frame's
\* image_available semaphore and its frame_in_flight fence are both handed to
\* vkAcquireNextImageKHR, which signals them once the image can be used.
AcquireNextImage ==
    /\ UNCHANGED guards
    /\ \E image \in 0 .. (imageCount - 1) : image_index' = image
    /\ Record("acquire_next_image", "reset_command_buffer",
              <<Call("acquire_next_image", current_framebuffer_index)>>)
    /\ acquirePending' = [acquirePending EXCEPT ![current_framebuffer_index] = TRUE]
    /\ UNCHANGED <<current_framebuffer_index, current_frame_index, frames, flips,
                   lastCall, fenceSignaled, gpuWork>>
    /\ UNCHANGED <<renderVars, setupVars>>

\* device.rs 300-304
ResetCommandBuffer ==
    /\ UNCHANGED guards
    /\ Record("reset_command_buffer", "begin_command_buffer",
              <<Call("reset_command_buffer", current_frame_index)>>)
    /\ UNCHANGED <<current_framebuffer_index, current_frame_index, image_index, frames,
                   flips, lastCall, fenceSignaled, acquirePending, gpuWork>>
    /\ UNCHANGED <<renderVars, setupVars>>

\* device.rs 306-311
BeginCommandBuffer ==
    /\ UNCHANGED guards
    /\ Record("begin_command_buffer", "begin_render_pass",
              <<Call("begin_command_buffer", current_frame_index)>>)
    /\ UNCHANGED <<current_framebuffer_index, current_frame_index, image_index, frames,
                   flips, lastCall, fenceSignaled, acquirePending, gpuWork>>
    /\ UNCHANGED <<renderVars, setupVars>>

\* Surface::get_framebuffer (surface.rs 192-199): expect() on the Option, unwrap() on
\* the index
GetFramebufferPanics(image) ==
    \/ framebuffers = None
    \/ image >= Len(framebuffers[1])

\* device.rs 313-338: get_pipeline("basic").expect(..), get_framebuffer(image_index),
\* cmd_begin_render_pass
BeginRenderPass ==
    /\ UNCHANGED guards
    /\ pc = "begin_render_pass"
    /\ IF get_pipeline(pipelines, "basic") = <<>> \/ GetFramebufferPanics(image_index)
       THEN /\ pc' = "panicked"
            /\ UNCHANGED frameLog
       ELSE /\ pc' = "bind_pipeline"
            /\ frameLog' = Append(frameLog, Call("begin_render_pass", current_frame_index))
    /\ UNCHANGED <<current_framebuffer_index, current_frame_index, image_index, frames,
                   flips, lastCall, fenceSignaled, acquirePending, gpuWork>>
    /\ UNCHANGED <<renderVars, setupVars>>

\* device.rs 340-364: cmd_bind_pipeline, cmd_set_viewport, cmd_set_scissor
BindPipeline ==
    /\ UNCHANGED guards
    /\ Record("bind_pipeline", "draw_vertices",
              <<Call("bind_pipeline", current_frame_index),
                Call("set_viewport", current_frame_index),
                Call("set_scissor", current_frame_index)>>)
    /\ UNCHANGED <<current_framebuffer_index, current_frame_index, image_index, frames,
                   flips, lastCall, fenceSignaled, acquirePending, gpuWork>>
    /\ UNCHANGED <<renderVars, setupVars>>

\* Device::draw_vertices (device.rs 412-418)
DrawVertices ==
    /\ UNCHANGED guards
    /\ Record("draw_vertices", "end_render_pass", <<Call("draw", current_frame_index)>>)
    /\ UNCHANGED <<current_framebuffer_index, current_frame_index, image_index, frames,
                   flips, lastCall, fenceSignaled, acquirePending, gpuWork>>
    /\ UNCHANGED <<renderVars, setupVars>>

\* the recording block with flip_buffers called before the write guard is dropped
EndRenderPassKeepGuard ==
    /\ Record("end_render_pass", "queue_submit",
              <<Call("end_render_pass", current_frame_index),
                Call("end_command_buffer", current_frame_index)>>)
    /\ UNCHANGED guards
    /\ UNCHANGED <<current_framebuffer_index, current_frame_index, image_index, frames,
                   flips, lastCall, fenceSignaled, acquirePending, gpuWork>>
    /\ UNCHANGED <<renderVars, setupVars>>

\* Device::end_graphics_render_pass (device.rs 420-425); the write guard is dropped
\* at the end of the block (vertex_renderer.rs 73)
EndRenderPass ==
    /\ Record("end_render_pass", "queue_submit",
              <<Call("end_render_pass", current_frame_index),
                Call("end_command_buffer", current_frame_index)>>)
    /\ guards' = NoGuard
    /\ UNCHANGED <<current_framebuffer_index, current_frame_index, image_index, frames,
                   flips, lastCall, fenceSignaled, acquirePending, gpuWork>>
    /\ UNCHANGED <<renderVars, setupVars>>

\* queue_families.graphics.get(index).unwrap() (device.rs 388, 405)
GraphicsQueueLookupPanics(index) == index >= graphicsQueues

\* Surface::flip_buffers (surface.rs 213-224) takes the read guard and calls
\* Device::submit_graphics_queue (device.rs 369-394): the frame's command buffer is
\* submitted with the frame's frame_in_flight fence as the fence to signal.
SubmitGraphicsQueue ==
    /\ pc = "queue_submit"
    /\ guards' = Acquire("read")
    /\ IF WouldBlock
       THEN /\ pc' = "blocked"
            /\ UNCHANGED <<frameLog, gpuWork>>
       ELSE IF GraphicsQueueLookupPanics(current_framebuffer_index)
       THEN /\ pc' = "panicked"
            /\ UNCHANGED <<frameLog, gpuWork>>
       ELSE /\ pc' = "queue_present"
            /\ frameLog' = Append(frameLog, Call("queue_submit", current_framebuffer_index))
            /\ gpuWork' = [gpuWork EXCEPT ![current_framebuffer_index] = @ + 1]
    /\ UNCHANGED <<current_framebuffer_index, current_frame_index, image_index, frames,
                   flips, lastCall, fenceSignaled, acquirePending>>
    /\ UNCHANGED <<renderVars, setupVars>>

\* surface.rs 226-232 and Device::present_queue (device.rs 396-410): the queue is
\* looked up in the graphics queues by the image index.
PresentQueue ==
    /\ UNCHANGED guards
    /\ pc = "queue_present"
    /\ IF GraphicsQueueLookupPanics(image_index)
       THEN /\ pc' = "panicked"
            /\ UNCHANGED frameLog
       ELSE /\ pc' = "advance"
            /\ frameLog' = Append(frameLog, Call("queue_present", current_framebuffer_index))
    /\ UNCHANGED <<current_framebuffer_index, current_frame_index, image_index, frames,
                   flips, lastCall, fenceSignaled, acquirePending, gpuWork>>
    /\ UNCHANGED <<renderVars, setupVars>>

\* surface.rs 234-235: the frame index advances, the read guard is dropped and
\* render returns
AdvanceFrame ==
    /\ Record("advance", "idle", <<Call("advance", current_framebuffer_index)>>)
    /\ current_framebuffer_index' = NextFrameIndex(current_framebuffer_index)
    /\ flips' = flips + 1
    /\ guards' = NoGuard
    /\ UNCHANGED <<current_frame_index, image_index, frames, lastCall, fenceSignaled,
                   acquirePending, gpuWork>>
    /\ UNCHANGED <<renderVars, setupVars>>

(***************************************************************************)
(* The GPU and the presentation engine, asynchronous to the CPU thread.    *)
(***************************************************************************)
cpuVars == <<pc, pipelines, lastCall, framebuffers, liveFramebuffers, fbCreated,
             current_framebuffer_index, current_frame_index, image_index, frameLog,
             frames, flips, graphicsQueues, imageCount, arcCount, dropQueue,
             destroyLog>>

\* The acquisition started by acquire_next_image signals the fence it was given.
GpuAcquireSignals(i) ==
    /\ UNCHANGED guards
    /\ acquirePending[i]
    /\ acquirePending' = [acquirePending EXCEPT ![i] = FALSE]
    /\ fenceSignaled' = [fenceSignaled EXCEPT ![i] = TRUE]
    /\ UNCHANGED gpuWork
    /\ UNCHANGED <<cpuVars, setupVars>>

InFrameLog(op, i) == \E k \in 1 .. Len(frameLog) : frameLog[k] = Call(op, i)

\* The submission of a frame waits for the image_available semaphore of its slot
\* (surface.rs 221), which the acquisition of that frame signals together with the
\* fence: the submission made last on slot i cannot complete while that acquisition
\* is pending.  A pending acquisition has no submission yet while the render call
\* that started it has not reached queue_submit.
AwaitedBySubmission(i) ==
    /\ acquirePending[i]
    /\ ~(InFrameLog("acquire_next_image", i) /\ ~InFrameLog("queue_submit", i))
Executable(i) == gpuWork[i] - (IF AwaitedBySubmission(i) THEN 1 ELSE 0)

\* A submission that executes command buffer i completes and signals the fence that
\* queue_submit was given.
GpuCompletes(i) ==
    /\ UNCHANGED guards
    /\ Executable(i) > 0
    /\ gpuWork' = [gpuWork EXCEPT ![i] = @ - 1]
    /\ fenceSignaled' = [fenceSignaled EXCEPT ![i] = TRUE]
    /\ UNCHANGED acquirePending
    /\ UNCHANGED <<cpuVars, setupVars>>

(***************************************************************************)
(* Teardown.  Rust runs Drop::drop of a value and then drops its fields in *)
(* declaration order; dropQueue holds what is still to run.                *)
(***************************************************************************)
Destroyed(kind) == \E i \in 1 .. Len(destroyLog) : destroyLog[i].kind = kind
Entry(kind, name) == [kind |-> kind, name |-> name]

\* the fields declared with the context first
RendererDropOrderContextFirst == <<"wait_idle", "_context", "surface", "device">>

\* Drop for VertexRenderer (vertex_renderer.rs 80-91), then its fields in the
\* order of their declaration (vertex_renderer.rs 7-13)
RendererDropOrder == <<"wait_idle", "surface", "device", "_context">>

\* the Surface destroying its swap chain first
SurfaceDropOrderSwapchainFirst == <<"swapchain", "sync_objects", "framebuffers",
                                    "image_views", "surface_khr", "surface.device">>

\* Drop for Surface (surface.rs 246-286), then its field `device` (surface.rs 26)
SurfaceDropOrder == <<"sync_objects", "framebuffers", "image_views", "swapchain",
                      "surface_khr", "surface.device">>

\* the Device without pipelines.clear(): its fields go in the order of their
\* declaration, logical_device before pipelines
DeviceDropOrderFieldsOnly == <<"command_buffers", "command_pools", "logical_device",
                               "logical_device_rc", "pipelines">>

\* Drop for Device (device.rs 428-483), then its field `logical_device`
DeviceDropOrder == <<"command_buffers", "command_pools", "pipelines", "logical_device",
                     "logical_device_rc">>

frameVars == <<current_framebuffer_index, current_frame_index, image_index, frameLog,
               frames, flips, graphicsQueues, imageCount, fenceSignaled,
               acquirePending, gpuWork, fbCreated>>

Dropping(step) == pc = "dropping" /\ dropQueue # <<>> /\ Head(dropQueue) = step

\* The owner lets go of the renderer (the event loop has ended, or main returns
\* after load_shader failed).
DropRenderer ==
    /\ UNCHANGED guards
    /\ Idle
    /\ pc' = "dropping"
    /\ dropQueue' = RendererDropOrder
    /\ lastCall' = NoCall
    /\ UNCHANGED <<pipelines, framebuffers, liveFramebuffers, arcCount, destroyLog>>
    /\ UNCHANGED <<frameVars, setupVars>>

\* the renderer dropped without waiting for the device
DeviceWaitIdleNoWait ==
    /\ Dropping("wait_idle")
    /\ UNCHANGED guards
    /\ IF WouldBlock
       THEN /\ pc' = "blocked"
            /\ UNCHANGED <<dropQueue, destroyLog>>
       ELSE /\ dropQueue' = Tail(dropQueue)
            /\ destroyLog' = Append(destroyLog, Entry("device_wait_idle", ""))
            /\ UNCHANGED pc
    /\ UNCHANGED <<pipelines, lastCall, framebuffers, liveFramebuffers, arcCount>>
    /\ UNCHANGED <<frameVars, setupVars>>

\* vertex_renderer.rs 82-89: under a read guard that lives for the statement,
\* device_wait_idle returns once no submission is pending
DeviceWaitIdle ==
    /\ Dropping("wait_idle")
    /\ UNCHANGED guards
    /\ IF WouldBlock
       THEN /\ pc' = "blocked"
            /\ UNCHANGED <<dropQueue, destroyLog>>
       ELSE /\ \A i \in Frames : gpuWork[i] = 0
            /\ dropQueue' = Tail(dropQueue)
            /\ destroyLog' = Append(destroyLog, Entry("device_wait_idle", ""))
            /\ UNCHANGED pc
    /\ UNCHANGED <<pipelines, lastCall, framebuffers, liveFramebuffers, arcCount>>
    /\ UNCHANGED <<frameVars, setupVars>>

\* the field `surface` is dropped: Drop for Surface runs and takes the read guard
\* (surface.rs 251-253)
DropSurface ==
    /\ Dropping("surface")
    /\ guards' = Acquire("read")
    /\ IF WouldBlock
       THEN pc' = "blocked" /\ UNCHANGED dropQueue
       ELSE dropQueue' = SurfaceDropOrder \o Tail(dropQueue) /\ UNCHANGED pc
    /\ UNCHANGED <<pipelines, lastCall, framebuffers, liveFramebuffers, arcCount,
                   destroyLog>>
    /\ UNCHANGED <<frameVars, setupVars>>

\* surface.rs 255-259, 272-285; the read guard is dropped where drop returns, after
\* the surface is destroyed
DestroySurfaceObject ==
    /\ \E kind \in {"sync_objects", "image_views", "swapchain", "surface_khr"} :
          /\ Dropping(kind)
          /\ destroyLog' = Append(destroyLog, Entry(kind, ""))
          /\ guards' = IF kind = "surface_khr" THEN NoGuard ELSE guards
    /\ dropQueue' = Tail(dropQueue)
    /\ UNCHANGED <<pc, pipelines, lastCall, framebuffers, liveFramebuffers, arcCount>>
    /\ UNCHANGED <<frameVars, setupVars>>

\* surface.rs 261-270: only the handles of the current Vec are destroyed
DestroyFramebuffers ==
    /\ UNCHANGED guards
    /\ Dropping("framebuffers")
    /\ dropQueue' = Tail(dropQueue)
    /\ IF framebuffers = None
       THEN UNCHANGED <<liveFramebuffers, destroyLog>>
       ELSE /\ liveFramebuffers' = liveFramebuffers \
                   {framebuffers[1][i] : i \in 1 .. Len(framebuffers[1])}
            /\ destroyLog' = Append(destroyLog, Entry("framebuffers", ""))
    /\ UNCHANGED <<pc, pipelines, lastCall, framebuffers, arcCount>>
    /\ UNCHANGED <<frameVars, setupVars>>

\* An Arc<RwLock<Device>> is dropped (Surface.device, or VertexRenderer.device); the
\* last one runs Drop for Device.
ReleaseDeviceArc ==
    /\ UNCHANGED guards
    /\ \/ Dropping("surface.device")
       \/ Dropping("device")
    /\ arcCount' = arcCount - 1
    /\ dropQueue' = IF arcCount = 1 THEN DeviceDropOrder \o Tail(dropQueue)
                    ELSE Tail(dropQueue)
    /\ UNCHANGED <<pc, pipelines, lastCall, framebuffers, liveFramebuffers, destroyLog>>
    /\ UNCHANGED <<frameVars, setupVars>>

\* device.rs 433-473, 477-481, and the Rc<ash::Device> going away with the struct
DestroyDeviceObject ==
    /\ UNCHANGED guards
    /\ \E kind \in {"command_buffers", "command_pools", "logical_device",
                    "logical_device_rc"} :
          /\ Dropping(kind)
          /\ destroyLog' = Append(destroyLog, Entry(kind, ""))
    /\ dropQueue' = Tail(dropQueue)
    /\ UNCHANGED <<pc, pipelines, lastCall, framebuffers, liveFramebuffers, arcCount>>
    /\ UNCHANGED <<frameVars, setupVars>>

\* device.rs 475: pipelines.clear() drops every Pipeline, in the map's order.
\* Drop for Pipeline (pipeline.rs 94-114) upgrades its Weak<ash::Device> and panics
\* if the Rc is gone.
DropPipeline(name) ==
    /\ UNCHANGED guards
    /\ Dropping("pipelines")
    /\ name \in DOMAIN pipelines
    /\ IF Destroyed("logical_device_rc")
       THEN /\ pc' = "panicked"
            /\ UNCHANGED <<pipelines, destroyLog>>
       ELSE /\ pipelines' = [k \in DOMAIN pipelines \ {name} |-> pipelines[k]]
            /\ destroyLog' = Append(destroyLog, Entry("pipeline", name))
            /\ UNCHANGED pc
    /\ UNCHANGED <<lastCall, framebuffers, liveFramebuffers, arcCount, dropQueue>>
    /\ UNCHANGED <<frameVars, setupVars>>

ClearPipelinesDone ==
    /\ UNCHANGED guards
    /\ Dropping("pipelines")
    /\ DOMAIN pipelines = {}
    /\ dropQueue' = Tail(dropQueue)
    /\ UNCHANGED <<pc, pipelines, lastCall, framebuffers, liveFramebuffers, arcCount,
                   destroyLog>>
    /\ UNCHANGED <<frameVars, setupVars>>

\* Drop for Context (context.rs 88-97): destroy_instance
DropContext ==
    /\ UNCHANGED guards
    /\ Dropping("_context")
    /\ dropQueue' = Tail(dropQueue)
    /\ destroyLog' = Append(destroyLog, Entry("instance", ""))
    /\ UNCHANGED <<pc, pipelines, lastCall, framebuffers, liveFramebuffers, arcCount>>
    /\ UNCHANGED <<frameVars, setupVars>>

Exit ==
    /\ UNCHANGED guards
    /\ pc = "dropping"
    /\ dropQueue = <<>>
    /\ pc' = "exited"
    /\ UNCHANGED <<pipelines, lastCall, framebuffers, liveFramebuffers, arcCount,
                   dropQueue, destroyLog>>
    /\ UNCHANGED <<frameVars, setupVars>>

(***************************************************************************)
(* The renderer after VertexRenderer::new: no pipeline, no framebuffers,   *)
(* frame index 0, the fences created signaled (surface.rs 146-154), two    *)
(* owners of the Device (VertexRenderer.device and Surface.device).        *)
(***************************************************************************)
\* the renderer with the swap chain constructed after the device is known
VertexRendererNewOrderSwapchainFirst == <<"context", "surface", "swapchain", "device">>

\* VertexRenderer::new (vertex_renderer.rs 21-24): Context::new, Surface::new,
\* Device::new, Surface::create_swapchain
VertexRendererNewOrder == <<"context", "surface", "device", "swapchain">>

\* Renderer::new (renderer.rs 17-19): Context::new, Device::new, and Surface::new,
\* which creates the platform surface and then the swap chain (surface.rs 73, 95)
RendererNewOrder == <<"context", "device", "surface", "swapchain">>

NewOrder(kind) ==
    IF kind = "VertexRenderer" THEN VertexRendererNewOrder ELSE RendererNewOrder

Objects(order, n) == {order[j] : j \in 1 .. n}
Built(order, n) == [i \in 1 .. n |-> [object |-> order[i], before |-> Objects(order, i - 1)]]

AdapterIdle == adapters = <<>> /\ accum = 0 /\ position = 0
NoQueues == [graphics |-> <<>>, present |-> <<>>, transfer |-> <<>>, compute |-> <<>>]
DeviceNotCreated == queue_create_infos = <<>> /\ queue_families = NoQueues
QueuesIdle == families = <<>> /\ assignment = [state |-> "none"] /\ DeviceNotCreated

\* The swap-chain parameters are not recomputed after construction.
Extent2D(width, height) == [width |-> width, height |-> height]
NoCapabilities == [current_extent |-> Extent2D(0, 0),
                   min_image_extent |-> Extent2D(0, 0),
                   max_image_extent |-> Extent2D(0, 0),
                   max_image_count |-> 0]
NoPreference == [surface_format |-> <<>>, present_mode |-> <<>>]
SwapchainIdle ==
    /\ swapchain_info = [capabilities |-> NoCapabilities, formats |-> <<>>,
                         present_modes |-> <<>>]
    /\ window_size = Extent2D(0, 0)
    /\ preferred = NoPreference
    /\ swapchain = [state |-> "none"]

Init ==
    /\ pc = "idle"
    /\ pipelines = EmptyMap
    /\ lastCall = NoCall
    /\ framebuffers = None
    /\ liveFramebuffers = {}
    /\ fbCreated = 0
    /\ current_framebuffer_index = 0
    /\ current_frame_index = 0
    /\ image_index = 0
    /\ frameLog = <<>>
    /\ frames = 0
    /\ flips = 0
    /\ graphicsQueues \in 1 .. MaxQueueCount
    /\ imageCount \in 1 .. MaxImages
    /\ fenceSignaled = [i \in Frames |-> TRUE]
    /\ acquirePending = [i \in Frames |-> FALSE]
    /\ gpuWork = [i \in Frames |-> 0]
    /\ arcCount = 2
    /\ dropQueue = <<>>
    /\ destroyLog = <<>>
    /\ guards = NoGuard
    /\ renderer = "VertexRenderer"
    /\ constructing = <<>>
    /\ constructed = Objects(VertexRendererNewOrder, Len(VertexRendererNewOrder))
    /\ built = Built(VertexRendererNewOrder, Len(VertexRendererNewOrder))
    /\ AdapterIdle
    /\ QueuesIdle
    /\ SwapchainIdle

Next ==
    \/ \E name \in Names, vertex \in Paths, fragment \in Paths :
          LoadShader(name, vertex, fragment)
    \/ \E name \in Names : CreateFramebuffersForPipeline(name)
    \/ RenderBegin
    \/ WaitForFences
    \/ ResetFences
    \/ AcquireNextImage
    \/ ResetCommandBuffer
    \/ BeginCommandBuffer
    \/ BeginRenderPass
    \/ BindPipeline
    \/ DrawVertices
    \/ EndRenderPass
    \/ SubmitGraphicsQueue
    \/ PresentQueue
    \/ AdvanceFrame
    \/ \E i \in Frames : GpuAcquireSignals(i)
    \/ \E i \in Frames : GpuCompletes(i)
    \/ DropRenderer
    \/ DeviceWaitIdle
    \/ DropSurface
    \/ DestroySurfaceObject
    \/ DestroyFramebuffers
    \/ ReleaseDeviceArc
    \/ DestroyDeviceObject
    \/ \E name \in Names : DropPipeline(name)
    \/ ClearPipelinesDone
    \/ DropContext
    \/ Exit

Spec == Init /\ [][Next]_vars

\* The steps of a render call: the CPU thread takes its next step whenever it can.
RenderStep ==
    \/ WaitForFences
    \/ ResetFences
    \/ AcquireNextImage
    \/ ResetCommandBuffer
    \/ BeginCommandBuffer
    \/ BeginRenderPass
    \/ BindPipeline
    \/ DrawVertices
    \/ EndRenderPass
    \/ SubmitGraphicsQueue
    \/ PresentQueue
    \/ AdvanceFrame

\* The GPU completes every image acquisition and every submitted command buffer.
GpuFairness ==
    \A i \in Frames : WF_vars(GpuAcquireSignals(i)) /\ WF_vars(GpuCompletes(i))

SpecLive == Spec /\ WF_vars(RenderStep) /\ GpuFairness

DeviceIdle ==
    /\ pc = "none"
    /\ pipelines = EmptyMap
    /\ lastCall = NoCall
    /\ framebuffers = None
    /\ liveFramebuffers = {}
    /\ fbCreated = 0
    /\ current_framebuffer_index = 0
    /\ current_frame_index = 0
    /\ image_index = 0
    /\ frameLog = <<>>
    /\ frames = 0
    /\ flips = 0
    /\ graphicsQueues = 0
    /\ imageCount = 0
    /\ fenceSignaled = <<>>
    /\ acquirePending = <<>>
    /\ gpuWork = <<>>
    /\ arcCount = 0
    /\ dropQueue = <<>>
    /\ destroyLog = <<>>
    /\ guards = NoGuard
    /\ renderer = "none"
    /\ constructing = <<>>
    /\ constructed = {}
    /\ built = <<>>

(***************************************************************************)
(* Construction of the renderer, and the first pipelines created on it.    *)
(***************************************************************************)
ConstructInit ==
    /\ pc = "constructing"
    /\ renderer \in {"VertexRenderer", "Renderer"}
    /\ constructing = NewOrder(renderer)
    /\ constructed = {}
    /\ built = <<>>
    /\ pipelines = EmptyMap
    /\ lastCall = NoCall
    /\ framebuffers = None
    /\ liveFramebuffers = {}
    /\ fbCreated = 0
    /\ current_framebuffer_index = 0
    /\ current_frame_index = 0
    /\ image_index = 0
    /\ frameLog = <<>>
    /\ frames = 0
    /\ flips = 0
    /\ graphicsQueues \in 1 .. MaxQueueCount
    /\ imageCount \in 1 .. MaxImages
    /\ fenceSignaled = [i \in Frames |-> TRUE]
    /\ acquirePending = [i \in Frames |-> FALSE]
    /\ gpuWork = [i \in Frames |-> 0]
    /\ arcCount = 2
    /\ dropQueue = <<>>
    /\ destroyLog = <<>>
    /\ guards = NoGuard
    /\ AdapterIdle
    /\ QueuesIdle
    /\ SwapchainIdle

\* one constructor call of new returns
ConstructObject ==
    /\ pc = "constructing"
    /\ constructing # <<>>
    /\ built' = Append(built, [object |-> Head(constructing), before |-> constructed])
    /\ constructed' = constructed \cup {Head(constructing)}
    /\ constructing' = Tail(constructing)
    /\ UNCHANGED <<renderer, deviceVars, adapterVars, queueVars, swapchainVars>>

\* new returns the renderer (vertex_renderer.rs 26-30, renderer.rs 21-25)
ConstructDone ==
    /\ pc = "constructing"
    /\ constructing = <<>>
    /\ pc' = "idle"
    /\ UNCHANGED <<pipelines, lastCall, framebuffers, liveFramebuffers, fbCreated,
                   current_framebuffer_index, current_frame_index, image_index,
                   frameLog, frames, flips, graphicsQueues, imageCount,
                   fenceSignaled, acquirePending, gpuWork, arcCount, dropQueue,
                   destroyLog, guards>>
    /\ UNCHANGED setupVars

\* main.rs: load_shader is called on the VertexRenderer that new returned
ConstructNext ==
    \/ ConstructObject
    \/ ConstructDone
    \/ /\ renderer = "VertexRenderer"
       /\ \E name \in Names, vertex \in Paths, fragment \in Paths :
             LoadShader(name, vertex, fragment)

SpecConstruct == ConstructInit /\ [][ConstructNext]_vars

(***************************************************************************)
(* Physical adapter selection: Device::new, device.rs 61-85.               *)
(* An adapter is its device type and its memory properties: the number of  *)
(* valid heaps and the heap array, whose entries past memory_heap_count    *)
(* are not meaningful.                                                     *)
(***************************************************************************)
DeviceTypes == {"DISCRETE_GPU", "INTEGRATED_GPU"}
HeapSizes == {1, 2}
Heap == [size : HeapSizes, device_local : BOOLEAN]
StaleHeap == [size |-> 2, device_local |-> TRUE]
HeapSlots == {0, 1}

\* Vulkan reports at least one heap, and at least one heap that is device-local.
AdapterChoices ==
    {a \in [device_type : DeviceTypes,
            memory_heap_count : 1 .. Cardinality(HeapSlots),
            memory_heaps : [HeapSlots -> Heap]] :
        /\ \A i \in HeapSlots :
              i >= a.memory_heap_count => a.memory_heaps[i] = StaleHeap
        /\ \E i \in HeapSlots :
              i < a.memory_heap_count /\ a.memory_heaps[i].device_local}

RECURSIVE SumOver(_, _)
SumOver(f, S) ==
    IF S = {} THEN 0
    ELSE LET x == CHOOSE y \in S : TRUE IN f[x] + SumOver(f, S \ {x})

\* get_device_local_memory_size (device.rs 837-863)
get_device_local_memory_size(adapter) ==
    SumOver([i \in HeapSlots |->
                IF i >= adapter.memory_heap_count THEN 0
                ELSE IF adapter.memory_heaps[i].device_local
                     THEN adapter.memory_heaps[i].size
                     ELSE 0],
            HeapSlots)

\* the closure replacing the current best on equal memory as well
SelectBetterOrEqual(list, acc, current) ==
    IF list[current].device_type # "DISCRETE_GPU"
    THEN acc
    ELSE IF get_device_local_memory_size(list[current])
              >= get_device_local_memory_size(list[acc])
         THEN current
         ELSE acc

\* the closure given to reduce (device.rs 68-84); accum and current are positions
\* in the adapter list
SelectBetter(list, acc, current) ==
    IF list[current].device_type # "DISCRETE_GPU"
    THEN acc
    ELSE IF get_device_local_memory_size(list[current])
              > get_device_local_memory_size(list[acc])
         THEN current
         ELSE acc

\* Iterator::reduce: None on an empty list, else the first element is the accumulator
AdapterInit ==
    /\ adapters \in UNION {[1 .. n -> AdapterChoices] : n \in 0 .. MaxAdapters}
    /\ accum = IF adapters = <<>> THEN 0 ELSE 1
    /\ position = 2
    /\ DeviceIdle
    /\ QueuesIdle
    /\ SwapchainIdle

\* one application of the closure
ReduceAdapter ==
    /\ position >= 2
    /\ position <= Len(adapters)
    /\ accum' = SelectBetter(adapters, accum, position)
    /\ position' = position + 1
    /\ UNCHANGED <<adapters, deviceVars, queueVars, swapchainVars, constructVars>>

\* device.rs 85: expect("Failed to select a physical device")
AdapterSelected == position = Len(adapters) + 1 /\ accum > 0
AdapterPanic == adapters = <<>> /\ position = 2

AdapterNext == ReduceAdapter

SpecAdapter == AdapterInit /\ [][AdapterNext]_vars

(***************************************************************************)
(* Queue-family assignment: find_device_queues_indices, device.rs 666-814. *)
(* A family is its capability flags, its queue count and whether it can    *)
(* present to the surface.  Families are numbered from 0 as in Vulkan; the *)
(* list positions are 1-based.                                             *)
(***************************************************************************)
QueueFlags == {"GRAPHICS", "COMPUTE", "TRANSFER"}
FamilyChoices == [queue_flags : SUBSET QueueFlags,
                  queue_count : 1 .. MaxQueueCount,
                  surface_support : BOOLEAN]

\* Iterator::reduce over the enumerated list with closure Better(list, accum, current)
Reduce(Better(_, _, _), list) ==
    LET r[i \in 1 .. Len(list)] ==
            IF i = 1 THEN 1 ELSE Better(list, r[i - 1], i)
    IN  r[Len(list)]

\* device.rs 683-691
BetterGraphics(list, acc, current) ==
    IF "GRAPHICS" \notin list[current].queue_flags THEN acc
    ELSE IF list[current].queue_count < list[acc].queue_count THEN acc
    ELSE current

\* the present closure comparing queue counts only
BetterPresentByCount(list, acc, current) ==
    IF list[current].queue_count > list[acc].queue_count THEN current
    ELSE acc

\* device.rs 710-737
BetterPresent(list, acc, current) ==
    IF list[current].surface_support /\ ~list[acc].surface_support THEN current
    ELSE IF list[acc].surface_support /\ ~list[current].surface_support THEN acc
    ELSE IF list[current].queue_count > list[acc].queue_count THEN current
    ELSE acc

\* device.rs 694-740
PresentQueueOf(list, graphics) ==
    IF list[graphics].surface_support THEN graphics ELSE Reduce(BetterPresent, list)

IsMixed(family) ==
    "COMPUTE" \in family.queue_flags \/ "GRAPHICS" \in family.queue_flags

\* device.rs 745-769
BetterTransfer(list, acc, current) ==
    IF "TRANSFER" \notin list[current].queue_flags THEN acc
    ELSE IF ~IsMixed(list[acc]) /\ IsMixed(list[current]) THEN acc
    ELSE IF IsMixed(list[acc]) /\ ~IsMixed(list[current]) THEN current
    ELSE IF list[current].queue_count >= list[acc].queue_count THEN current
    ELSE acc

\* device.rs 775-788
BetterCompute(list, acc, current) ==
    IF "COMPUTE" \notin list[current].queue_flags THEN acc
    ELSE IF "GRAPHICS" \in list[acc].queue_flags
            /\ "GRAPHICS" \notin list[current].queue_flags THEN current
    ELSE IF list[current].queue_count > list[acc].queue_count THEN current
    ELSE acc

\* QueueFamilyInfo { index, count } (device.rs 791-806)
QueueFamilyInfo(list, at) == [index |-> at - 1, count |-> list[at].queue_count]

\* find_device_queues_indices: every reduce of an empty list is None and the
\* first expect() panics (device.rs 692)
find_device_queues_indices(list) ==
    IF list = <<>>
    THEN [state |-> "panicked"]
    ELSE LET graphics == Reduce(BetterGraphics, list) IN
         [state |-> "assigned",
          graphics |-> QueueFamilyInfo(list, graphics),
          present |-> QueueFamilyInfo(list, PresentQueueOf(list, graphics)),
          transfer |-> QueueFamilyInfo(list, Reduce(BetterTransfer, list)),
          compute |-> QueueFamilyInfo(list, Reduce(BetterCompute, list))]

QueuesInit ==
    /\ families \in UNION {[1 .. n -> FamilyChoices] : n \in 0 .. MaxFamilies}
    /\ assignment = [state |-> "none"]
    /\ DeviceNotCreated
    /\ DeviceIdle
    /\ AdapterIdle
    /\ SwapchainIdle

FindDeviceQueuesIndices ==
    /\ assignment.state = "none"
    /\ assignment' = find_device_queues_indices(families)
    /\ UNCHANGED <<families, queue_create_infos, queue_families>>
    /\ UNCHANGED <<deviceVars, adapterVars, swapchainVars, constructVars>>

\* queue_priorities: one 1.0 per queue
Priorities(count) == [i \in 1 .. count |-> "1.0"]
DeviceQueueCreateInfo(index, priorities) ==
    [queue_family_index |-> index, queue_priorities |-> priorities]

\* indices_used holds the family index of every request pushed so far
indices_used(infos) == {infos[i].queue_family_index : i \in 1 .. Len(infos)}
PushUnlessUsed(infos, info) ==
    IF info.queue_family_index \in indices_used(infos) THEN infos ELSE Append(infos, info)

\* the requests with the transfer family pushed whether or not it is already used
queue_create_infos_transfer_twice(indices) ==
    LET graphics == <<DeviceQueueCreateInfo(indices.graphics.index,
                                            Priorities(indices.graphics.count))>>
        transfer == Append(graphics,
                           DeviceQueueCreateInfo(indices.transfer.index,
                                                 Priorities(indices.transfer.count)))
        compute == PushUnlessUsed(transfer,
                                  DeviceQueueCreateInfo(indices.compute.index,
                                                        Priorities(indices.compute.count)))
    IN  PushUnlessUsed(compute, DeviceQueueCreateInfo(indices.present.index, Priorities(1)))

\* Device::new, device.rs 117-164: graphics, then transfer, compute and present, each
\* unless its family index is already used; present with the single priority [1.0]
queue_create_infos_of(indices) ==
    LET graphics == <<DeviceQueueCreateInfo(indices.graphics.index,
                                            Priorities(indices.graphics.count))>>
        transfer == PushUnlessUsed(graphics,
                                   DeviceQueueCreateInfo(indices.transfer.index,
                                                         Priorities(indices.transfer.count)))
        compute == PushUnlessUsed(transfer,
                                  DeviceQueueCreateInfo(indices.compute.index,
                                                        Priorities(indices.compute.count)))
    IN  PushUnlessUsed(compute, DeviceQueueCreateInfo(indices.present.index, Priorities(1)))

\* get_device_queue(family, i) for i in 0 .. count: a handle is named by its family
\* and its queue index
GetDeviceQueues(info) ==
    [i \in 1 .. info.count |-> [family |-> info.index, queue |-> i - 1]]

\* create_device_queues (device.rs 622-641)
create_device_queues(indices) ==
    [graphics |-> GetDeviceQueues(indices.graphics),
     present |-> GetDeviceQueues(indices.present),
     transfer |-> GetDeviceQueues(indices.transfer),
     compute |-> GetDeviceQueues(indices.compute)]

\* Device::new, device.rs 117-183: the requests are built, the logical device is
\* created with them and the queue handles are retrieved
CreateLogicalDevice ==
    /\ assignment.state = "assigned"
    /\ DeviceNotCreated
    /\ queue_create_infos' = queue_create_infos_of(assignment)
    /\ queue_families' = create_device_queues(assignment)
    /\ UNCHANGED <<families, assignment>>
    /\ UNCHANGED <<deviceVars, adapterVars, swapchainVars, constructVars>>

QueuesNext ==
    \/ FindDeviceQueuesIndices
    \/ CreateLogicalDevice

SpecQueues == QueuesInit /\ [][QueuesNext]_vars

\* The graphics and present reductions read only the graphics bit, the queue
\* count and the surface support of a family: longer lists of such families.
PresentFamilyChoices == [queue_flags : SUBSET {"GRAPHICS"},
                         queue_count : 1 .. MaxQueueCount,
                         surface_support : BOOLEAN]

PresentQueuesInit ==
    /\ families \in UNION {[1 .. n -> PresentFamilyChoices] : n \in 0 .. MaxPresentFamilies}
    /\ assignment = [state |-> "none"]
    /\ DeviceNotCreated
    /\ DeviceIdle
    /\ AdapterIdle
    /\ SwapchainIdle

SpecPresentQueues == PresentQueuesInit /\ [][QueuesNext]_vars

(***************************************************************************)
(* Swap-chain parameters: get_swapchain_parameters (surface.rs 323-378)    *)
(* and the image count requested in Surface::new (surface.rs 91).          *)
(***************************************************************************)
Formats == {"B8G8R8A8_UNORM", "B8G8R8A8_SRGB", "R8G8B8A8_SRGB"}
ColorSpaces == {"SRGB_NONLINEAR", "EXTENDED_SRGB_NONLINEAR"}
SurfaceFormat(format, color_space) == [format |-> format, color_space |-> color_space]
SurfaceFormats == [format : Formats, color_space : ColorSpaces]
PresentModes == {"IMMEDIATE", "MAILBOX", "FIFO", "FIFO_RELAXED"}

\* the lists a driver reports: no entry twice
DistinctLists(S, n) ==
    UNION {{l \in [1 .. k -> S] : \A i, j \in 1 .. k : l[i] = l[j] => i = j} : k \in 0 .. n}

\* surface.rs 328: preferred_surface_format.unwrap_or((UNDEFINED, EXTENDED_SRGB_NONLINEAR))
PreferredFormat ==
    IF preferred.surface_format = None
    THEN SurfaceFormat("UNDEFINED", "EXTENDED_SRGB_NONLINEAR")
    ELSE preferred.surface_format[1]

\* surface.rs 345: preferred_present_mode.unwrap_or(SHARED_DEMAND_REFRESH)
PreferredPresentMode ==
    IF preferred.present_mode = None
    THEN "SHARED_DEMAND_REFRESH"
    ELSE preferred.present_mode[1]

\* the closure given to reduce (surface.rs 329-339)
BetterFormat(list, acc, current) ==
    IF /\ list[current].format = PreferredFormat.format
       /\ list[current].color_space = PreferredFormat.color_space THEN current
    ELSE IF /\ list[current].format = "B8G8R8A8_UNORM"
            /\ list[current].color_space = "SRGB_NONLINEAR" THEN current
    ELSE IF /\ list[current].format = "B8G8R8A8_SRGB"
            /\ list[current].color_space = "SRGB_NONLINEAR" THEN current
    ELSE acc

\* the closure given to reduce (surface.rs 346-356)
BetterPresentMode(list, acc, current) ==
    IF list[current] = PreferredPresentMode THEN current
    ELSE IF list[current] = "FIFO_RELAXED" THEN current
    ELSE IF list[current] = "FIFO" THEN current
    ELSE acc

\* u32::MAX, the value no extent of a surface has; it is only compared, and the
\* largest integer of the model checker stands for it
U32Max == 2147483647

\* num::clamp(input, min, max)
clamp_max_only(input, min, max) == IF input > max THEN max ELSE input

clamp(input, min, max) ==
    IF input < min THEN min ELSE IF input > max THEN max ELSE input

\* surface.rs 360-370
select_extent(capabilities, window) ==
    IF capabilities.current_extent.width # U32Max
    THEN capabilities.current_extent
    ELSE Extent2D(clamp(window.width, capabilities.min_image_extent.width,
                        capabilities.max_image_extent.width),
                  clamp(window.height, capabilities.min_image_extent.height,
                        capabilities.max_image_extent.height))

\* the image count capped by max_image_count alone
min_image_count_capped(max_image_count) ==
    IF max_image_count >= 2 THEN 2 ELSE max_image_count

\* surface.rs 91
min_image_count(max_image_count) == IF max_image_count >= 2 THEN 2 ELSE 1

\* get_swapchain_parameters followed by the swap-chain creation info
\* (surface.rs 77-92); the two expect() calls panic on an empty list
get_swapchain_parameters(info, window) ==
    IF info.formats = <<>> \/ info.present_modes = <<>>
    THEN [state |-> "panicked"]
    ELSE [state |-> "created",
          surface_format |-> info.formats[Reduce(BetterFormat, info.formats)],
          present_mode |-> info.present_modes[Reduce(BetterPresentMode, info.present_modes)],
          extent |-> select_extent(info.capabilities, window),
          min_image_count |-> min_image_count(info.capabilities.max_image_count)]

CreateSwapchain ==
    /\ swapchain.state = "none"
    /\ swapchain' = get_swapchain_parameters(swapchain_info, window_size)
    /\ UNCHANGED <<swapchain_info, window_size, preferred, deviceVars, adapterVars,
                   queueVars, constructVars>>

SwapchainNext == CreateSwapchain

\* a device that reports one format, one present mode and a fixed extent
PlainCapabilities == [current_extent |-> Extent2D(1, 1),
                      min_image_extent |-> Extent2D(1, 1),
                      max_image_extent |-> Extent2D(1, 1),
                      max_image_count |-> 2]
PlainFormats == <<SurfaceFormat("R8G8B8A8_SRGB", "SRGB_NONLINEAR")>>
PlainPresentModes == <<"FIFO">>

Options(S) == {None} \cup {Some(x) : x \in S}

FormatInit ==
    /\ \E formats \in DistinctLists(SurfaceFormats, MaxFormats) :
          swapchain_info = [capabilities |-> PlainCapabilities, formats |-> formats,
                            present_modes |-> PlainPresentModes]
    /\ \E format \in Options(SurfaceFormats) :
          preferred = [surface_format |-> format, present_mode |-> None]
    /\ window_size = Extent2D(1, 1)
    /\ swapchain = [state |-> "none"]
    /\ DeviceIdle
    /\ AdapterIdle
    /\ QueuesIdle

SpecFormat == FormatInit /\ [][SwapchainNext]_vars

PresentModeInit ==
    /\ \E modes \in DistinctLists(PresentModes, MaxPresentModes) :
          swapchain_info = [capabilities |-> PlainCapabilities, formats |-> PlainFormats,
                            present_modes |-> modes]
    /\ \E mode \in Options(PresentModes) :
          preferred = [surface_format |-> None, present_mode |-> mode]
    /\ window_size = Extent2D(1, 1)
    /\ swapchain = [state |-> "none"]
    /\ DeviceIdle
    /\ AdapterIdle
    /\ QueuesIdle

SpecPresentMode == PresentModeInit /\ [][SwapchainNext]_vars

\* The capabilities a conforming driver reports: min <= max in both dimensions, and
\* a current extent that is (u32::MAX, u32::MAX) or lies between them.
Dimensions == 0 .. MaxDimension
Extents == [width : Dimensions, height : Dimensions]
CapabilityChoices ==
    {c \in [current_extent : Extents \cup {Extent2D(U32Max, U32Max)},
            min_image_extent : Extents,
            max_image_extent : Extents,
            max_image_count : 0 .. MaxImageCount] :
        /\ c.min_image_extent.width <= c.max_image_extent.width
        /\ c.min_image_extent.height <= c.max_image_extent.height
        /\ \/ c.current_extent = Extent2D(U32Max, U32Max)
           \/ /\ c.current_extent.width >= c.min_image_extent.width
              /\ c.current_extent.width <= c.max_image_extent.width
              /\ c.current_extent.height >= c.min_image_extent.height
              /\ c.current_extent.height <= c.max_image_extent.height}

CapabilitiesInit ==
    /\ \E capabilities \in CapabilityChoices :
          swapchain_info = [capabilities |-> capabilities, formats |-> PlainFormats,
                            present_modes |-> PlainPresentModes]
    /\ window_size \in Extents
    /\ preferred = NoPreference
    /\ swapchain = [state |-> "none"]
    /\ DeviceIdle
    /\ AdapterIdle
    /\ QueuesIdle

SpecCapabilities == CapabilitiesInit /\ [][SwapchainNext]_vars

(***************************************************************************)
(*                               Properties                                *)
(***************************************************************************)
CreateCalled == lastCall.op = "create_pipeline"
FreshName == lastCall.name \notin DOMAIN lastCall.before

\* C1: create_pipeline with a name not yet registered and vertex and fragment
\* shader files that both exist returns success, and get_pipeline(name) then
\* returns the pipeline just inserted.
C1_FreshPipelineCreated ==
    (/\ CreateCalled
     /\ FreshName
     /\ ExistsInCwd(lastCall.vertex) /\ ExistsInExeDir(lastCall.vertex)
     /\ ExistsInCwd(lastCall.fragment) /\ ExistsInExeDir(lastCall.fragment))
    => (/\ lastCall.result = "Ok"
        /\ get_pipeline(pipelines, lastCall.name)
              = <<Pipeline(lastCall.vertex, lastCall.fragment)>>)

\* C2: create_pipeline with a name that is already registered returns the
\* duplicate-name error and leaves the registry as it was (same names, same
\* pipeline under each name), whatever the two shader paths are.
C2_DuplicateNameRejected ==
    (CreateCalled /\ ~FreshName)
    => (/\ lastCall.result = "ErrDuplicate"
        /\ pipelines = lastCall.before
        /\ pc # "panicked")

C2_Witness ==
    /\ CreateCalled
    /\ ~FreshName
    /\ lastCall.vertex = "missing"
    /\ lastCall.fragment = "cwd_only"
    /\ lastCall.result = "ErrDuplicate"

\* C3: create_pipeline with a fresh name and a vertex or fragment path at which
\* no shader file exists (resolved against the executable's directory) returns the
\* not-found error, without aborting the process and without touching the registry.
C3_MissingShaderReported ==
    (/\ CreateCalled
     /\ FreshName
     /\ ~ExistsInExeDir(lastCall.vertex) \/ ~ExistsInExeDir(lastCall.fragment))
    => (/\ lastCall.result = "ErrNotFound"
        /\ pc # "panicked"
        /\ pipelines = lastCall.before)

IsDiscrete(adapter) == adapter.device_type = "DISCRETE_GPU"

\* C4: adapter selection picks a discrete adapter whenever the adapter list
\* contains one, regardless of memory sizes and of the order of the list.
C4_DiscretePreferred ==
    (AdapterSelected /\ \E i \in 1 .. Len(adapters) : IsDiscrete(adapters[i]))
    => IsDiscrete(adapters[accum])

Memory(i) == get_device_local_memory_size(adapters[i])

\* the adapters after the first that are discrete and have strictly more
\* device-local memory than the first, among the first n adapters
Challengers(n) == {i \in 2 .. n : IsDiscrete(adapters[i]) /\ Memory(i) > Memory(1)}

\* the first of the candidates with the most device-local memory
FirstLargest(candidates) ==
    CHOOSE i \in candidates :
        \A j \in candidates : Memory(j) < Memory(i) \/ (Memory(j) = Memory(i) /\ i <= j)

\* C5: after every step of the reduction the current best is the first adapter,
\* unless a later discrete adapter has strictly more device-local memory than it,
\* and then it is the first of those with the most memory.  Hence: a non-discrete
\* candidate never replaced the current best, and for a list of only discrete
\* adapters the result is the first adapter with maximal device-local memory.
C5_SelectionIsFold ==
    (adapters # <<>>) =>
        LET n == position - 1 IN
        /\ accum = IF Challengers(n) = {} THEN 1 ELSE FirstLargest(Challengers(n))
        /\ accum = 1 \/ IsDiscrete(adapters[accum])
        /\ (\A i \in 1 .. n : IsDiscrete(adapters[i])) => accum = FirstLargest(1 .. n)

C5_Witness ==
    /\ AdapterSelected
    /\ Len(adapters) = 2
    /\ IsDiscrete(adapters[1]) /\ IsDiscrete(adapters[2])
    /\ Memory(1) = 2 /\ Memory(2) = 4
    /\ accum = 2

Supports(family, flag) == flag \in family.queue_flags

\* C6: whenever some compute-capable family lacks the graphics bit, the family
\* assigned to compute is compute-capable and lacks the graphics bit.
C6_ComputeAvoidsGraphics ==
    (/\ assignment.state = "assigned"
     /\ \E i \in 1 .. Len(families) :
           Supports(families[i], "COMPUTE") /\ ~Supports(families[i], "GRAPHICS"))
    => LET chosen == families[assignment.compute.index + 1] IN
       Supports(chosen, "COMPUTE") /\ ~Supports(chosen, "GRAPHICS")

\* C7: starting from 0, the frame index after k calls of flip_buffers is k mod
\* MAX_FRAMES_IN_FLIGHT (1,0,1,0,1 after the first five), so it is always a valid
\* index of the per-frame fences, semaphores and graphics command buffers.
C7_FrameIndexCycles ==
    /\ current_framebuffer_index = flips % MAX_FRAMES_IN_FLIGHT
    /\ current_framebuffer_index \in 0 .. (MAX_FRAMES_IN_FLIGHT - 1)
    /\ current_framebuffer_index \in DOMAIN fenceSignaled
    /\ current_framebuffer_index \in DOMAIN gpuWork

C7_Witness == flips = 5 /\ current_framebuffer_index = 1

\* the steps of a frame the claim lists, in its order
RenderOrder == <<"wait_for_fences", "reset_fences", "acquire_next_image",
                 "reset_command_buffer", "begin_command_buffer", "begin_render_pass",
                 "bind_pipeline", "draw", "end_render_pass", "queue_submit",
                 "queue_present", "advance">>
RenderSteps == {RenderOrder[i] : i \in 1 .. Len(RenderOrder)}
Listed(call) == call.op \in RenderSteps
ListedCalls == SelectSeq(frameLog, Listed)

Recording == pc \in {"begin_command_buffer", "begin_render_pass", "bind_pipeline",
                     "draw_vertices", "end_render_pass", "queue_submit"}

\* C9: at most MAX_FRAMES_IN_FLIGHT submitted frames have unfinished GPU work, and
\* the command buffer of a frame slot is reset and re-recorded only when no earlier
\* submission of that command buffer is still unfinished.
C9_FramePacing ==
    /\ gpuWork[0] + gpuWork[1] <= MAX_FRAMES_IN_FLIGHT
    /\ Recording => gpuWork[current_frame_index] = 0

PipelineDestroyed ==
    \E i \in 1 .. Len(destroyLog) : destroyLog[i].kind = "pipeline"
SurfaceTouched == Destroyed("sync_objects") \/ Destroyed("swapchain")
SurfaceGone ==
    /\ Destroyed("sync_objects")
    /\ Destroyed("image_views")
    /\ Destroyed("swapchain")
    /\ Destroyed("surface_khr")

\* C10 as stated: Pipeline, then Surface, then Device, then Context: every
\* registered pipeline is torn down before the swap chain and the synchronisation
\* objects are destroyed, the Surface before the logical device, the logical
\* device before the instance.
C10_PipelineSurfaceDeviceContext ==
    /\ SurfaceTouched => DOMAIN pipelines = {}
    /\ Destroyed("logical_device") => SurfaceGone
    /\ Destroyed("instance") => Destroyed("logical_device")

\* C10 as amended: Surface, then Pipeline, then Device, then Context: the Surface's
\* objects are all destroyed before any registered pipeline is torn down, every
\* registered pipeline before the logical device, the logical device before the
\* instance.
C10_SurfacePipelineDeviceContext ==
    /\ PipelineDestroyed => SurfaceGone
    /\ Destroyed("logical_device") => (DOMAIN pipelines = {} /\ SurfaceGone)
    /\ Destroyed("instance") => Destroyed("logical_device")

C10_Witness ==
    /\ pc = "exited"
    /\ PipelineDestroyed
    /\ Destroyed("logical_device")
    /\ Destroyed("instance")

Assigned == assignment.state = "assigned"
FamilyOf(role) == families[assignment[role].index + 1]
FamilyIndices == 1 .. Len(families)

\* C17: whenever some family supports graphics, the family assigned to graphics
\* supports graphics and no graphics-capable family has strictly more queues.
C17_GraphicsFamilyIsBest ==
    (Assigned /\ \E i \in FamilyIndices : Supports(families[i], "GRAPHICS"))
    => /\ Supports(FamilyOf("graphics"), "GRAPHICS")
       /\ \A i \in FamilyIndices :
             Supports(families[i], "GRAPHICS")
             => families[i].queue_count <= FamilyOf("graphics").queue_count

Dedicated(family) ==
    /\ Supports(family, "TRANSFER")
    /\ ~Supports(family, "GRAPHICS")
    /\ ~Supports(family, "COMPUTE")

\* C18: the family assigned to transfer supports transfer whenever some family
\* does, is a dedicated transfer family whenever one exists, and no transfer
\* family of its class (dedicated or mixed) has strictly more queues.
C18_TransferFamilyIsBest ==
    Assigned =>
        LET chosen == FamilyOf("transfer") IN
        /\ (\E i \in FamilyIndices : Supports(families[i], "TRANSFER"))
           => Supports(chosen, "TRANSFER")
        /\ (\E i \in FamilyIndices : Dedicated(families[i])) => Dedicated(chosen)
        /\ \A i \in FamilyIndices :
              (/\ Supports(families[i], "TRANSFER")
               /\ Dedicated(families[i]) = Dedicated(chosen))
              => families[i].queue_count <= chosen.queue_count

\* C19: when the graphics family can present to the surface it is the present
\* family; otherwise, when some family can present, the present family can present
\* and has the most queues of the families that can.
C19_PresentFamilyIsBest ==
    Assigned =>
        IF FamilyOf("graphics").surface_support
        THEN assignment.present = assignment.graphics
        ELSE (\E i \in FamilyIndices : families[i].surface_support)
             => /\ FamilyOf("present").surface_support
                /\ \A i \in FamilyIndices :
                      families[i].surface_support
                      => families[i].queue_count <= FamilyOf("present").queue_count

C19_Witness ==
    /\ Assigned
    /\ Len(families) = 3
    /\ assignment.graphics.index = 0
    /\ ~families[1].surface_support
    /\ families[2].surface_support /\ families[3].surface_support
    /\ families[2].queue_count < families[3].queue_count
    /\ families[3].queue_count <= families[1].queue_count
    /\ assignment.present.index = 2

RoleNeeds(family, role) ==
    IF role = "present" THEN family.surface_support
    ELSE Supports(family, CASE role = "graphics" -> "GRAPHICS"
                            [] role = "transfer" -> "TRANSFER"
                            [] OTHER -> "COMPUTE")

\* C20: for each role, when the family list is not empty and no family has what
\* the role requires, device creation fails instead of assigning a family.
C20_MissingCapabilityIsFatal ==
    \A role \in {"graphics", "present", "transfer", "compute"} :
        (/\ assignment.state # "none"
         /\ families # <<>>
         /\ \A i \in FamilyIndices : ~RoleNeeds(families[i], role))
        => assignment.state = "panicked"

Created == swapchain.state = "created"
InList(x, list) == \E i \in 1 .. Len(list) : list[i] = x
PreferredBGRA(f) ==
    /\ f.format \in {"B8G8R8A8_UNORM", "B8G8R8A8_SRGB"}
    /\ f.color_space = "SRGB_NONLINEAR"

\* C12: a supported override is the selected surface format; otherwise a supported
\* B8G8R8A8_UNORM or B8G8R8A8_SRGB entry with SRGB_NONLINEAR is selected; otherwise
\* the first supported format is selected.
C12_FormatPriority ==
    Created =>
        LET formats == swapchain_info.formats
            override == preferred.surface_format
        IN  IF override # None /\ InList(override[1], formats)
            THEN swapchain.surface_format = override[1]
            ELSE IF \E i \in 1 .. Len(formats) : PreferredBGRA(formats[i])
            THEN PreferredBGRA(swapchain.surface_format)
                 /\ InList(swapchain.surface_format, formats)
            ELSE swapchain.surface_format = formats[1]

\* C13: a supported override is the selected present mode; with no supported
\* override FIFO_RELAXED is selected whenever it is supported; FIFO is selected only
\* when neither is available; the selected mode is one of the supported modes.
C13_PresentModePriority ==
    Created =>
        LET modes == swapchain_info.present_modes
            override == preferred.present_mode
            overridden == override # None /\ InList(override[1], modes)
        IN  /\ overridden => swapchain.present_mode = override[1]
            /\ (~overridden /\ InList("FIFO_RELAXED", modes))
               => swapchain.present_mode = "FIFO_RELAXED"
            /\ swapchain.present_mode = "FIFO"
               => (InList("FIFO", modes)
                   /\ (overridden => override[1] = "FIFO")
                   /\ (~overridden => ~InList("FIFO_RELAXED", modes)))
            /\ InList(swapchain.present_mode, modes)

Sentinel == Extent2D(U32Max, U32Max)
Clamped(result, input, min, max) ==
    /\ min <= result /\ result <= max
    /\ (min <= input /\ input <= max) => result = input
    /\ input < min => result = min
    /\ input > max => result = max

\* C14: the extent is the current extent unless that is (u32::MAX, u32::MAX), and
\* then it is the window size clamped in each dimension to the minimum and maximum
\* image extent, so it lies within them.
C14_ExtentSelection ==
    Created =>
        LET capabilities == swapchain_info.capabilities IN
        IF capabilities.current_extent # Sentinel
        THEN swapchain.extent = capabilities.current_extent
        ELSE /\ Clamped(swapchain.extent.width, window_size.width,
                        capabilities.min_image_extent.width,
                        capabilities.max_image_extent.width)
             /\ Clamped(swapchain.extent.height, window_size.height,
                        capabilities.min_image_extent.height,
                        capabilities.max_image_extent.height)

C14_Witness ==
    /\ Created
    /\ swapchain_info.capabilities.current_extent = Sentinel
    /\ swapchain_info.capabilities.min_image_extent = Extent2D(1, 1)
    /\ swapchain_info.capabilities.max_image_extent = Extent2D(2, 2)
    /\ window_size = Extent2D(2, 0)
    /\ swapchain.extent = Extent2D(2, 1)

Min(a, b) == IF a <= b THEN a ELSE b

\* C15 as stated: the requested image count is min(2, max_image_count) for every
\* max_image_count, 0 and 1 included.
C15_ImageCountIsMin ==
    Created => swapchain.min_image_count = Min(2, swapchain_info.capabilities.max_image_count)

\* C15 as amended: the requested image count is 2 when max_image_count is at least 2
\* and 1 otherwise: min(2, max_image_count) for every max_image_count except 0,
\* where it is 1.
C15_ImageCountIsOneOrTwo ==
    Created =>
        LET max_image_count == swapchain_info.capabilities.max_image_count IN
        /\ swapchain.min_image_count \in {1, 2}
        /\ swapchain.min_image_count = 2 <=> max_image_count >= 2
        /\ max_image_count # 0 => swapchain.min_image_count = Min(2, max_image_count)
        /\ max_image_count = 0 => swapchain.min_image_count = 1

C15_Witness ==
    /\ Created
    /\ swapchain_info.capabilities.max_image_count = 0
    /\ swapchain.min_image_count = 1

RecordingPass == pc \in {"wait_for_fences", "reset_fences", "acquire_next_image",
                         "reset_command_buffer", "begin_command_buffer",
                         "begin_render_pass", "bind_pipeline", "draw_vertices",
                         "end_render_pass"}
Flipping == pc \in {"queue_present", "advance"}
DroppingSurface ==
    /\ pc = "dropping"
    /\ dropQueue # <<>>
    /\ Head(dropQueue) \in {"sync_objects", "framebuffers", "image_views", "swapchain",
                            "surface_khr"}

\* C16: the render pass is recorded and pipelines are created under the exclusive
\* guard, the queue is submitted to and presented under a read guard, the
\* exclusive guard is released before flip_buffers asks for read access, and no
\* request in render, load_shader or teardown is made while a guard is still held.
C16_LockDiscipline ==
    /\ pc # "blocked"
    /\ RecordingPass => Held = "write"
    /\ CreateCalled => lastCall.guard = "write"
    /\ pc = "queue_submit" => Held = ""
    /\ Flipping => Held = "read"
    /\ DroppingSurface => Held = "read"
    /\ pc \in {"idle", "exited"} => Held = ""

C16_Witness ==
    /\ pc = "exited"
    /\ frames = 2
    /\ flips = 2
    /\ Destroyed("surface_khr")
    /\ PipelineDestroyed

BuiltIndices == 1 .. Len(built)
\* the construction of `object`, whenever it began, found every one of `needed`
Needs(object, needed) ==
    \A i \in BuiltIndices : built[i].object = object => needed \subseteq built[i].before
\* Pipeline::new has been called by the last create_pipeline
PipelineConstructed ==
    CreateCalled /\ lastCall.result \in {"Ok", "ErrInsert", "Panic"}

Roles == {"graphics", "present", "transfer", "compute"}
DeviceCreated == queue_create_infos # <<>>
AssignedIndices == {assignment[role].index : role \in Roles}
Requests == 1 .. Len(queue_create_infos)
RequestsFor(index) == {i \in Requests : queue_create_infos[i].queue_family_index = index}
PresentOnly ==
    assignment.present.index \notin {assignment.graphics.index, assignment.transfer.index,
                                     assignment.compute.index}

\* C21: the queue-creation requests name each distinct assigned family index exactly
\* once and no other index; a present family distinct from the graphics, transfer and
\* compute families is the last request and asks for a single queue; every other
\* request asks for its family's full queue count, each queue with priority 1.0.
C21_RequestsAreDeduplicated ==
    DeviceCreated =>
        /\ \A index \in AssignedIndices : Cardinality(RequestsFor(index)) = 1
        /\ \A i \in Requests : queue_create_infos[i].queue_family_index \in AssignedIndices
        /\ PresentOnly =>
              LET last == queue_create_infos[Len(queue_create_infos)] IN
              /\ last.queue_family_index = assignment.present.index
              /\ last.queue_priorities = <<"1.0">>
        /\ \A i \in Requests :
              LET info == queue_create_infos[i] IN
              ~(PresentOnly /\ info.queue_family_index = assignment.present.index)
              => /\ Len(info.queue_priorities)
                       = families[info.queue_family_index + 1].queue_count
                 /\ \A q \in DOMAIN info.queue_priorities : info.queue_priorities[q] = "1.0"

C21_Witness ==
    /\ DeviceCreated
    /\ PresentOnly
    /\ Len(queue_create_infos) = 2
    /\ queue_create_infos[1].queue_family_index = 0
    /\ Len(queue_create_infos[1].queue_priorities) = 2
    /\ queue_create_infos[2].queue_family_index = 1
    /\ families[2].queue_count = 2

\* the number of queues the requests ask for in a family
Requested(index) ==
    IF RequestsFor(index) = {} THEN 0
    ELSE Len(queue_create_infos[CHOOSE i \in RequestsFor(index) : TRUE].queue_priorities)

\* C29: for every role the number of queue handles retrieved from its family is at
\* most the number of queues requested for that family, also for the present role
\* when its family is distinct from the other roles' families and has several queues.
C29_HandlesWithinRequests ==
    DeviceCreated =>
        \A role \in Roles :
            Len(queue_families[role]) <= Requested(assignment[role].index)

Rendering == RecordingPass \/ pc = "queue_submit" \/ Flipping

\* render finds the pipeline it draws with and the framebuffers of the Surface
Renderable == get_pipeline(pipelines, "basic") # <<>> /\ framebuffers # None

\* C22: provided the GPU completes every image acquisition and every submitted
\* command buffer, every render call (on a renderer that holds the pipeline "basic"
\* and its framebuffers) that has started eventually returns.
C22_RenderReturns == (Rendering /\ Renderable) ~> Idle

\* C28: in every frame the frame index that picks the queue for the submission and
\* the image index that picks the queue for the presentation are both smaller than
\* the number of graphics queue handles, so neither lookup fails.
C28_QueueLookupSucceeds ==
    /\ pc = "queue_submit" => ~GraphicsQueueLookupPanics(current_framebuffer_index)
    /\ pc = "queue_present" => ~GraphicsQueueLookupPanics(image_index)

PipelinesDestroyed == {i \in 1 .. Len(destroyLog) : destroyLog[i].kind = "pipeline"}

\* C23: the Device frees its command buffers, then destroys its command pools, then
\* clears the pipeline registry, then destroys the logical device; every registered
\* Pipeline is torn down while the logical device and the reference to it are alive,
\* and no teardown step aborts the process.
C23_DeviceTeardownOrder ==
    /\ Destroyed("command_pools") => Destroyed("command_buffers")
    /\ PipelineDestroyed => Destroyed("command_pools")
    /\ Dropping("pipelines") =>
          /\ Destroyed("command_pools")
          /\ ~Destroyed("logical_device")
          /\ ~Destroyed("logical_device_rc")
    /\ Destroyed("logical_device") => (Destroyed("command_pools") /\ DOMAIN pipelines = {})
    /\ Destroyed("logical_device_rc") => Destroyed("logical_device")
    /\ pc = "panicked" => dropQueue = <<>>

C23_Witness ==
    /\ pc = "exited"
    /\ Cardinality(PipelinesDestroyed) = 2
    /\ Destroyed("command_buffers")
    /\ Destroyed("logical_device_rc")

\* C24: the Surface destroys its fences and semaphores, then its framebuffers if any
\* were created, then its image views, then the swap chain, then the platform
\* surface, and all of them before the logical device is destroyed.
C24_SurfaceTeardownOrder ==
    /\ Destroyed("framebuffers") => Destroyed("sync_objects")
    /\ Destroyed("image_views") =>
          /\ Destroyed("sync_objects")
          /\ framebuffers # None => Destroyed("framebuffers")
    /\ Destroyed("swapchain") => Destroyed("image_views")
    /\ Destroyed("surface_khr") => Destroyed("swapchain")
    /\ Destroyed("logical_device") => Destroyed("surface_khr")

C24_Witness ==
    /\ Destroyed("logical_device")
    /\ Destroyed("framebuffers")
    /\ Destroyed("surface_khr")
    /\ flips = 1

GpuIdle == \A i \in Frames : gpuWork[i] = 0 /\ ~acquirePending[i]
ObjectDestroyed == \E i \in 1 .. Len(destroyLog) : destroyLog[i].kind # "device_wait_idle"

\* C25: at teardown the wait for the device to be idle has completed before any
\* synchronisation object, framebuffer, image view, swap chain, pipeline, command
\* pool or logical device is destroyed, and no GPU work is unfinished when one is.
C25_WaitIdleBeforeDestruction ==
    /\ destroyLog # <<>> => destroyLog[1].kind = "device_wait_idle"
    /\ ObjectDestroyed => GpuIdle

C25_Witness ==
    /\ ObjectDestroyed
    /\ Destroyed("sync_objects")
    /\ flips = 3
    /\ GpuIdle

\* C26: whenever create_pipeline returns an error (duplicate name, shader not found,
\* or failed insertion), the set of registered pipeline names is the same after the
\* call as before it.
C26_ErrorLeavesNames ==
    (CreateCalled /\ lastCall.result \in {"ErrDuplicate", "ErrNotFound", "ErrInsert"})
    => DOMAIN pipelines = DOMAIN lastCall.before

\* C27: between two resets of a frame's in-flight fence the fence is given to at
\* most one GPU operation as the fence to signal (frameLog holds the calls made since
\* the reset at the start of the render call), and when the frame is about to be
\* submitted its fence is unsignaled and neither an image acquisition nor an earlier
\* submission may still signal it.
C27_FenceHasOneSignaller ==
    /\ \A i \in Frames :
          ~(InFrameLog("acquire_next_image", i) /\ InFrameLog("queue_submit", i))
    /\ pc = "queue_submit" =>
          /\ ~acquirePending[current_framebuffer_index]
          /\ ~fenceSignaled[current_framebuffer_index]
          /\ gpuWork[current_framebuffer_index] = 0

\* C30: after create_framebuffers_for_pipeline the Surface holds one framebuffer per
\* swap-chain image view, and once the Surface is torn down every framebuffer that
\* was ever created has been destroyed.
C30_FramebuffersAllDestroyed ==
    /\ framebuffers # None => Len(framebuffers[1]) = imageCount
    /\ Destroyed("surface_khr") => liveFramebuffers = {}

====
